---------------------------- MODULE Spec2Model ----------------------------
(***************************************************************************)
(* A model of telethon/extensions/markdownv3.py: the MarkdownV3            *)
(* transcoder (blockquote_parser, parse, unparse).                         *)
(*                                                                         *)
(* A Python str is a sequence of one-character strings, so that every      *)
(* index, slice, search and replacement of the source is computed on       *)
(* positions, as the source computes it.                                   *)
(***************************************************************************)
EXTENDS Integers, Sequences, FiniteSets, TLC

VARIABLES
    pc,                \* the position of the call in progress
    arg_text,          \* the text argument of the call in progress
    arg_entities,      \* the entity list a call or the loop of line 165 got
    markup,            \* the markup whose parse result unparse was given
    stale,             \* whether an earlier call left delims, is_fixed_width
                       \* or placeholders not empty when this call of parse
                       \* began
    ret,               \* the value the last call returned
    lines,             \* blockquote_parser: lines
    li,                \* blockquote_parser: index of the line the loop is at
    result,            \* blockquote_parser: result
    in_blockquote,     \* blockquote_parser: in_blockquote
    text,              \* parse, unparse: text
    origin,            \* parse: for each character of text, its index in the
                       \* text the scan of line 108 ran on, 0 for a character
                       \* a replacement put in
    delims,            \* parse: delims
    is_fixed_width,    \* parse: is_fixed_width
    placeholders,      \* parse: placeholders
    matches,           \* parse: list(re.finditer(MARKDOWN_RE, text))
    mi,                \* parse: index of the match the loop is at
    entities,          \* parse, unparse: entities
    ei,                \* index of the entity the loop is at
    entities_offsets,  \* unparse: entities_offsets
    oi,                \* unparse: index of the pair the splice loop is at
    marks              \* unparse: for each code unit of text, 0 when it is
                       \* of the plain text, else the id of the token it is of

callVars == <<pc, arg_text, arg_entities, markup, stale, ret>>
bqVars == <<lines, li, result, in_blockquote>>
localVars == <<delims, is_fixed_width, placeholders>>
scanVars == <<origin, matches, mi>>
unVars == <<entities, ei, entities_offsets, oi, marks>>
vars == <<callVars, bqVars, text, localVars, scanVars, unVars>>

-----------------------------------------------------------------------------
(* Bounds of the model. *)

MaxLines == 3
MaxPieces == 4
MaxConstructs == 2

-----------------------------------------------------------------------------
(* Python str primitives. *)

Min(S) == CHOOSE x \in S : \A y \in S : x <= y

StartsWith(s, p) == Len(s) >= Len(p) /\ SubSeq(s, 1, Len(p)) = p

\* s[n:]
DropN(s, n) == SubSeq(s, n + 1, Len(s))

\* s[:n]
TakeN(s, n) == SubSeq(s, 1, IF n < Len(s) THEN n ELSE Len(s))

\* The 1-based index of the first occurrence of p in s at or after the
\* 1-based index from; 0 when there is none (str.find, shifted by one).
Find(s, p, from) ==
    LET c == {i \in from..(Len(s) - Len(p) + 1) : SubSeq(s, i, i + Len(p) - 1) = p}
    IN  IF c = {} THEN 0 ELSE Min(c)

IsSpace(c) == c \in {" ", "\t", "\n", "\r"}

\* str.strip(): every leading and every trailing whitespace character goes.
Strip(s) ==
    LET keep == {i \in 1..Len(s) : ~IsSpace(s[i])}
    IN  IF keep = {} THEN <<>>
        ELSE SubSeq(s, Min(keep), CHOOSE i \in keep : \A j \in keep : j <= i)

\* str.split(sep) for a one-character sep: always at least one piece.
RECURSIVE Split(_, _)
Split(s, sep) ==
    LET at == Find(s, <<sep>>, 1)
    IN  IF at = 0 THEN <<s>>
        ELSE <<SubSeq(s, 1, at - 1)>> \o Split(DropN(s, at), sep)

\* sep.join(ss)
RECURSIVE Join(_, _)
Join(ss, sep) ==
    IF ss = <<>> THEN <<>>
    ELSE IF Len(ss) = 1 THEN ss[1]
    ELSE ss[1] \o <<sep>> \o Join(Tail(ss), sep)

\* str.replace(old, new): every non-overlapping occurrence, left to right.
RECURSIVE ReplaceAll(_, _, _)
ReplaceAll(s, old, new) ==
    LET at == Find(s, old, 1)
    IN  IF at = 0 \/ old = <<>> THEN s
        ELSE SubSeq(s, 1, at - 1) \o new
             \o ReplaceAll(DropN(s, at + Len(old) - 1), old, new)

\* str.replace(old, new, 1): the first occurrence only.
ReplaceFirst(s, old, new) ==
    LET at == Find(s, old, 1)
    IN  IF at = 0 THEN s
        ELSE SubSeq(s, 1, at - 1) \o new \o DropN(s, at + Len(old) - 1)

-----------------------------------------------------------------------------
(* The module's constants, lines 6-40. *)

BOLD_DELIM == <<"*", "*">>
ITALIC_DELIM == <<"_", "_">>
UNDERLINE_DELIM == <<"-", "-">>
STRIKE_DELIM == <<"~", "~">>
SPOILER_DELIM == <<"|", "|">>
\* The backquote character is written BQ: a string of the model cannot hold it.
BQ == "BQ"
CODE_DELIM == <<BQ>>
PRE_DELIM == <<BQ, BQ, BQ>>
BLOCKQUOTE_DELIM == <<">">>
BLOCKQUOTE_EXPANDABLE_DELIM == <<"*", "*", ">">>

\* OPENING_TAG.format(tag) and CLOSING_TAG.format(tag)
OPENING_TAG(tag) == <<"<">> \o tag \o <<">">>
CLOSING_TAG(tag) == <<"<", "/">> \o tag \o <<">">>

TagBlockquote == <<"b", "l", "o", "c", "k", "q", "u", "o", "t", "e">>
TagBlockquoteExpandable ==
    TagBlockquote \o <<" ", "e", "x", "p", "a", "n", "d", "a", "b", "l", "e">>

-----------------------------------------------------------------------------
(* blockquote_parser, lines 47-87. *)

\* Line 50: re.sub(r"^>", ">", text), then re.sub(r"\n>", "\n>", ...): each
\* pattern is replaced by itself.
BqNormalise(t) ==
    LET first == IF StartsWith(t, <<">">>) THEN <<">">> \o DropN(t, 1) ELSE t
    IN  ReplaceAll(first, <<"\n", ">">>, <<"\n", ">">>)

\* Lines 58-62: the tag of a block opened by line.
BqTag(line) ==
    IF StartsWith(line, BLOCKQUOTE_EXPANDABLE_DELIM)
    THEN TagBlockquoteExpandable ELSE TagBlockquote

\* Lines 63-67 and 72-76: the prefix cut from a quote line.
BqOpenPrefix(line) ==
    IF BqTag(line) = TagBlockquoteExpandable
    THEN BLOCKQUOTE_EXPANDABLE_DELIM ELSE BLOCKQUOTE_DELIM

BqContPrefix(line) ==
    IF StartsWith(line, BLOCKQUOTE_EXPANDABLE_DELIM)
    THEN BLOCKQUOTE_EXPANDABLE_DELIM ELSE BLOCKQUOTE_DELIM

\* Line 56: the test that sends a line to the quote branch.
BqIsQuoteLine(line) == StartsWith(line, BLOCKQUOTE_DELIM)

\* Line 80 and line 85: result[-1] += "</blockquote>"
BqCloseLast(res) ==
    [res EXCEPT ![Len(res)] = @ \o CLOSING_TAG(TagBlockquote)]

\* BqLine without lines 79-81: a block is not closed by the line after it.
BqLineNoClose(st, line) ==
    IF BqIsQuoteLine(line)
    THEN IF ~st.in_blockquote
         THEN [result |-> Append(st.result,
                   OPENING_TAG(BqTag(line))
                   \o Strip(DropN(line, Len(BqOpenPrefix(line))))),
               in_blockquote |-> TRUE]
         ELSE [result |-> Append(st.result,
                   Strip(DropN(line, Len(BqContPrefix(line))))),
               in_blockquote |-> st.in_blockquote]
    ELSE [result |-> Append(st.result, line), in_blockquote |-> FALSE]

\* One pass of the loop body, lines 56-82, on the loop's state.
BqLine(st, line) ==
    IF BqIsQuoteLine(line)
    THEN IF ~st.in_blockquote
         THEN [result |-> Append(st.result,
                   OPENING_TAG(BqTag(line))
                   \o Strip(DropN(line, Len(BqOpenPrefix(line))))),
               in_blockquote |-> TRUE]
         ELSE [result |-> Append(st.result,
                   Strip(DropN(line, Len(BqContPrefix(line))))),
               in_blockquote |-> st.in_blockquote]
    ELSE [result |-> Append(IF st.in_blockquote THEN BqCloseLast(st.result)
                            ELSE st.result, line),
          in_blockquote |-> FALSE]

\* Lines 84-87: close a block still open, join the lines.
BqReturnValue(st) ==
    Join(IF st.in_blockquote THEN BqCloseLast(st.result) ELSE st.result, "\n")

RECURSIVE BqLoop(_, _, _)
BqLoop(st, ls, i) ==
    IF i > Len(ls) THEN st ELSE BqLoop(BqLine(st, ls[i]), ls, i + 1)

\* blockquote_parser(text) as one function.
blockquote_parser(t) ==
    BqReturnValue(BqLoop([result |-> <<>>, in_blockquote |-> FALSE],
                         Split(BqNormalise(t), "\n"), 1))

-----------------------------------------------------------------------------
(* MARKDOWN_RE, lines 18-35, and re.finditer, line 108. *)

\* The alternatives of the delimiter group, in the order of the pattern.
DelimAlternatives ==
    << PRE_DELIM, CODE_DELIM, STRIKE_DELIM, UNDERLINE_DELIM,
       ITALIC_DELIM, BOLD_DELIM, SPOILER_DELIM >>

\* The first alternative that matches s at the 1-based index p, or <<>>.
DelimAt(s, p) ==
    LET hit == {k \in 1..Len(DelimAlternatives) :
                   StartsWith(DropN(s, p - 1), DelimAlternatives[k])}
    IN  IF hit = {} THEN <<>> ELSE DelimAlternatives[Min(hit)]

NoNewline(s, a, b) == \A k \in a..b : s[k] # "\n"

\* \[(.+?)\]\((.+?)\) at p: s[p] is "[", the label is the shortest run of
\* one or more characters other than a newline after which "](", a target
\* of one or more such characters and ")" follow; the target is the
\* shortest one.  rb is the index of "]" and rp the index of the final ")".
LinkAt(s, p) ==
    LET n  == Len(s)
        rbs == {i \in (p + 2)..(n - 3) :
                   /\ s[i] = "]" /\ s[i + 1] = "("
                   /\ NoNewline(s, p + 1, i - 1)
                   /\ \E j \in (i + 3)..n : s[j] = ")" /\ NoNewline(s, i + 2, j - 1)}
    IN  IF p > n \/ s[p] # "[" \/ rbs = {} THEN [found |-> FALSE]
        ELSE LET rb == Min(rbs)
                 rp == Min({j \in (rb + 3)..n :
                               s[j] = ")" /\ NoNewline(s, rb + 2, j - 1)})
             IN  [found |-> TRUE, rb |-> rb, rp |-> rp]

\* A match: start is match.span()[0] (0-based), delim, text_url and url are
\* match.groups() with <<>> for None, full is match.group(0).
DelimMatch(p, d) ==
    [start |-> p - 1, delim |-> d, text_url |-> <<>>, url |-> <<>>, full |-> d]

LinkMatch(s, p, l) ==
    [start |-> p - 1, delim |-> <<>>,
     text_url |-> SubSeq(s, p + 1, l.rb - 1),
     url |-> SubSeq(s, l.rb + 2, l.rp - 1),
     full |-> SubSeq(s, p, l.rp)]

\* list(re.finditer(MARKDOWN_RE, s)) from the 1-based index p on: leftmost
\* matches, none overlapping.
RECURSIVE FindIter(_, _)
FindIter(s, p) ==
    IF p > Len(s) THEN <<>>
    ELSE LET d == DelimAt(s, p)
             l == LinkAt(s, p)
         IN  IF d # <<>> THEN <<DelimMatch(p, d)>> \o FindIter(s, p + Len(d))
             ELSE IF l.found THEN <<LinkMatch(s, p, l)>> \o FindIter(s, l.rp + 1)
             ELSE FindIter(s, p + 1)

-----------------------------------------------------------------------------
(* utils.replace_once(text, old, new, start): the first occurrence of old    *)
(* at or after start is replaced; the text is returned as it is when there   *)
(* is none.                                                                  *)

\* The 1-based index replace_once replaces at, 0 when it replaces nothing.
ReplaceOnceAt(t, old, start) == Find(t, old, start + 1)

\* s with n elements from the 1-based index at on replaced by new.
Splice(s, at, n, new) == SubSeq(s, 1, at - 1) \o new \o DropN(s, at + n - 1)

replace_once(t, old, new, start) ==
    LET at == ReplaceOnceAt(t, old, start)
    IN  IF at = 0 THEN t ELSE Splice(t, at, Len(old), new)

\* The same replacement on the origins of the characters: a character put in
\* by a replacement has origin 0.
Zeros(n) == [k \in 1..n |-> 0]

ReplaceOnceOrigin(o, t, old, new, start) ==
    LET at == ReplaceOnceAt(t, old, start)
    IN  IF at = 0 THEN o ELSE Splice(o, at, Len(old), Zeros(Len(new)))

-----------------------------------------------------------------------------
(* The tokenizer loop of parse, lines 108-155. *)

FixedWidthDelims == {CODE_DELIM, PRE_DELIM}

\* URL_MARKUP.format(url, text_url), line 40
URL_MARKUP(url, text_url) ==
    <<"<", "a", " ", "h", "r", "e", "f", "=", "\"">> \o url \o <<"\"", ">">>
    \o text_url \o <<"<", "/", "a", ">">>

\* tag_map, lines 128-136
tag_map(delim) ==
    CASE delim = BOLD_DELIM -> <<"b">>
      [] delim = ITALIC_DELIM -> <<"i">>
      [] delim = UNDERLINE_DELIM -> <<"u">>
      [] delim = STRIKE_DELIM -> <<"s">>
      [] delim = CODE_DELIM -> <<"c", "o", "d", "e">>
      [] delim = PRE_DELIM -> <<"p", "r", "e">>
      [] delim = SPOILER_DELIM -> <<"s", "p", "o", "i", "l", "e", "r">>

\* Line 145: f'<pre language="{lang}">'
PreOpening(lang) ==
    <<"<", "p", "r", "e", " ", "l", "a", "n", "g", "u", "a", "g", "e", "=", "\"">>
    \o lang \o <<"\"", ">">>

\* Lines 113-114: the flag after the match has toggled it.
ToggleFixedWidth(fw, m) == IF m.delim \in FixedWidthDelims THEN ~fw ELSE fw

\* Which branch of the loop body the match takes, given the flag as it is
\* before the match and the open set.
TokCase(m, fw, ds) ==
    IF ToggleFixedWidth(fw, m) /\ m.delim \notin FixedWidthDelims THEN "skip"
    ELSE IF m.text_url # <<>> THEN "link"
    ELSE IF m.delim \notin ds
         THEN IF m.delim = PRE_DELIM THEN "open_pre" ELSE "open"
         ELSE "close"

\* Line 143: text[start:].split("\n")[0]
LineContent(t, start) == Split(DropN(t, start), "\n")[1]

\* What the branch searches for (old) and puts in its place (new).
TokOld(m, t, c) ==
    CASE c = "link" -> m.full
      [] c = "open_pre" -> LineContent(t, m.start)
      [] c \in {"open", "close"} -> m.delim
      [] OTHER -> <<>>

TokNew(m, t, c) ==
    CASE c = "link" -> URL_MARKUP(m.url, m.text_url)
      [] c = "open_pre" -> PreOpening(DropN(LineContent(t, m.start), Len(PRE_DELIM)))
      [] c = "open" -> OPENING_TAG(tag_map(m.delim))
      [] c = "close" -> CLOSING_TAG(tag_map(m.delim))
      [] OTHER -> <<>>

\* TokStep without line 152: a kind closed stays in the open set.
TokStepNoRemove(st, m) ==
    LET fw == ToggleFixedWidth(st.is_fixed_width, m)
        c  == TokCase(m, st.is_fixed_width, st.delims)
        old == TokOld(m, st.text, c)
        new == TokNew(m, st.text, c)
    IN  IF c = "skip"
        THEN [st EXCEPT !.is_fixed_width = fw]
        ELSE [text |-> replace_once(st.text, old, new, m.start),
              origin |-> ReplaceOnceOrigin(st.origin, st.text, old, new, m.start),
              delims |-> CASE c \in {"open", "open_pre"} -> st.delims \cup {m.delim}
                           [] OTHER -> st.delims,
              is_fixed_width |-> fw]

\* One pass of the loop body on the state st = [text, origin, delims,
\* is_fixed_width].
TokStep(st, m) ==
    LET fw == ToggleFixedWidth(st.is_fixed_width, m)
        c  == TokCase(m, st.is_fixed_width, st.delims)
        old == TokOld(m, st.text, c)
        new == TokNew(m, st.text, c)
    IN  IF c = "skip"
        THEN [st EXCEPT !.is_fixed_width = fw]
        ELSE [text |-> replace_once(st.text, old, new, m.start),
              origin |-> ReplaceOnceOrigin(st.origin, st.text, old, new, m.start),
              delims |-> CASE c \in {"open", "open_pre"} -> st.delims \cup {m.delim}
                           [] c = "close" -> st.delims \ {m.delim}
                           [] OTHER -> st.delims,
              is_fixed_width |-> fw]

RECURSIVE TokLoop(_, _, _)
TokLoop(st, ms, i) ==
    IF i > Len(ms) THEN st ELSE TokLoop(TokStep(st, ms[i]), ms, i + 1)

-----------------------------------------------------------------------------
(* int and str of Python, on the characters the model uses. *)

Digits == <<"0", "1", "2", "3", "4", "5", "6", "7", "8", "9">>

IsDigit(c) == \E k \in 1..10 : Digits[k] = c

DigitValue(c) == (CHOOSE k \in 1..10 : Digits[k] = c) - 1

\* str(n) for n >= 0
RECURSIVE NatToStr(_)
NatToStr(n) ==
    IF n < 10 THEN <<Digits[n + 1]>>
    ELSE NatToStr(n \div 10) \o <<Digits[(n % 10) + 1]>>

\* str(n)
IntToStr(n) == IF n < 0 THEN <<"-">> \o NatToStr(-n) ELSE NatToStr(n)

\* The value of a run of digits and single underscores between digits.
RECURSIVE DigitsValue(_, _)
DigitsValue(s, acc) ==
    IF s = <<>> THEN acc
    ELSE IF s[1] = "_" THEN DigitsValue(Tail(s), acc)
    ELSE DigitsValue(Tail(s), 10 * acc + DigitValue(s[1]))

\* int(s) accepts: whitespace around, one sign, digits, an underscore only
\* between two digits.
IntBodyOk(b) ==
    /\ b # <<>>
    /\ \A k \in 1..Len(b) :
          \/ IsDigit(b[k])
          \/ /\ b[k] = "_" /\ 1 < k /\ k < Len(b)
             /\ IsDigit(b[k - 1]) /\ IsDigit(b[k + 1])

\* int(s): ok is FALSE where Python raises ValueError.
PyInt(s) ==
    LET t == Strip(s)
        signed == t # <<>> /\ t[1] \in {"-", "+"}
        body == IF signed THEN Tail(t) ELSE t
    IN  IF ~IntBodyOk(body) THEN [ok |-> FALSE, value |-> 0]
        ELSE [ok |-> TRUE,
              value |-> IF signed /\ t[1] = "-" THEN 0 - DigitsValue(body, 0)
                        ELSE DigitsValue(body, 0)]

-----------------------------------------------------------------------------
(* The MessageEntity types of tl.types as records.  Every record carries   *)
(* all the fields: url holds TextUrl.url and Pre.language, id holds        *)
(* CustomEmoji.document_id and MentionName.user_id, collapsed holds        *)
(* Blockquote.collapsed; a field a kind does not have is <<>>, 0 or FALSE. *)

Entity(kind, offset, length, url, id, collapsed) ==
    [kind |-> kind, offset |-> offset, length |-> length,
     url |-> url, id |-> id, collapsed |-> collapsed]

Plain(kind, offset, length) == Entity(kind, offset, length, <<>>, 0, FALSE)

-----------------------------------------------------------------------------
(* The code-section placeholders of parse, lines 101-105 and 157-159. *)

CodeOpen == <<"<", "c", "o", "d", "e", ">">>
CodeClose == <<"<", "/", "c", "o", "d", "e", ">">>

\* CODE_TAG_RE at the 1-based index p: the index of the last character of
\* the match, 0 when there is none.
CodeTagEnd(s, p) ==
    LET ends == {q \in (p + Len(CodeOpen))..Len(s) :
                    /\ StartsWith(DropN(s, q - 1), CodeClose)
                    /\ NoNewline(s, p + Len(CodeOpen), q - 1)}
    IN  IF ~StartsWith(DropN(s, p - 1), CodeOpen) \/ ends = {} THEN 0
        ELSE Min(ends) + Len(CodeClose) - 1

\* CODE_TAG_RE.findall(s) from the 1-based index p on.
RECURSIVE CodeSections(_, _)
CodeSections(s, p) ==
    IF p > Len(s) THEN <<>>
    ELSE LET e == CodeTagEnd(s, p)
         IN  IF e = 0 THEN CodeSections(s, p + 1)
             ELSE <<SubSeq(s, p, e)>> \o CodeSections(s, e + 1)

\* Line 103: f"{{CODE_SECTION_{i}}}"
Placeholder(i) ==
    <<"{", "C", "O", "D", "E", "_", "S", "E", "C", "T", "I", "O", "N", "_">>
    \o IntToStr(i) \o <<"}">>

\* Lines 102-105: st = [text, placeholders]; placeholders is the dict as
\* the sequence of its (key, value) pairs in insertion order.
RECURSIVE ShieldLoop(_, _, _)
ShieldLoop(st, sections, i) ==
    IF i > Len(sections) THEN st
    ELSE ShieldLoop(
            [text |-> ReplaceFirst(st.text, sections[i], Placeholder(i - 1)),
             placeholders |-> Append(st.placeholders,
                                     <<Placeholder(i - 1), sections[i]>>)],
            sections, i + 1)

Shield(t, phs) ==
    ShieldLoop([text |-> t, placeholders |-> phs], CodeSections(t, 1), 1)

\* Lines 158-159
RECURSIVE Restore(_, _, _)
Restore(t, phs, i) ==
    IF i > Len(phs) THEN t
    ELSE Restore(ReplaceAll(t, phs[i][1], phs[i][2]), phs, i + 1)

-----------------------------------------------------------------------------
(* The entity normalisation of parse, lines 164-178. *)

UrlSpoiler == <<"s", "p", "o", "i", "l", "e", "r">>
UrlEmojiPrefix == <<"e", "m", "o", "j", "i", "/">>

\* Line 173: int(e.url.split("/")[1])
EmojiId(url) == PyInt(Split(url, "/")[2])

\* The loop body, lines 166-178, on one entity.
NormCase(e) ==
    IF e.kind # "TextUrl" THEN "other"
    ELSE IF e.url = UrlSpoiler THEN "spoiler"
    ELSE IF StartsWith(e.url, UrlEmojiPrefix)
         THEN IF EmojiId(e.url).ok THEN "emoji" ELSE "failed"
         ELSE "link"

\* NormOne with the Spoiler built one code unit further on.
NormOneShifted(e) ==
    CASE NormCase(e) = "spoiler" -> Plain("Spoiler", e.offset + 1, e.length)
      [] NormCase(e) = "emoji" ->
            Entity("CustomEmoji", e.offset, e.length, <<>>, EmojiId(e.url).value, FALSE)
      [] OTHER -> e

\* NormOne with the target cut to what follows "emoji/" when the id does not
\* parse.
NormOneCutPrefix(e) ==
    CASE NormCase(e) = "spoiler" -> Plain("Spoiler", e.offset, e.length)
      [] NormCase(e) = "emoji" ->
            Entity("CustomEmoji", e.offset, e.length, <<>>, EmojiId(e.url).value, FALSE)
      [] NormCase(e) = "failed" -> [e EXCEPT !.url = DropN(@, Len(UrlEmojiPrefix))]
      [] OTHER -> e

NormOne(e) ==
    CASE NormCase(e) = "spoiler" -> Plain("Spoiler", e.offset, e.length)
      [] NormCase(e) = "emoji" ->
            Entity("CustomEmoji", e.offset, e.length, <<>>, EmojiId(e.url).value, FALSE)
      [] OTHER -> e

\* The whole loop.
Normalize(es) == [k \in 1..Len(es) |-> NormOne(es[k])]

-----------------------------------------------------------------------------
(* The collaborators of parse and unparse that the module imports: the      *)
(* surrogate codec (utils.add_surrogates, utils.remove_surrogates) and the  *)
(* tag parser (html.parse), modelled from their contracts.                  *)

\* A character outside the Basic Multilingual Plane and its two code units.
ASTRAL == "U+1F600"
HighSurrogate == "D83D"
LowSurrogate == "DE00"

RECURSIVE add_surrogates(_)
add_surrogates(t) ==
    IF t = <<>> THEN <<>>
    ELSE (IF t[1] = ASTRAL THEN <<HighSurrogate, LowSurrogate>> ELSE <<t[1]>>)
         \o add_surrogates(Tail(t))

\* A pair becomes its character again; a code unit with no partner stays.
RECURSIVE remove_surrogates(_)
remove_surrogates(t) ==
    IF t = <<>> THEN <<>>
    ELSE IF Len(t) >= 2 /\ t[1] = HighSurrogate /\ t[2] = LowSurrogate
         THEN <<ASTRAL>> \o remove_surrogates(DropN(t, 2))
         ELSE <<t[1]>> \o remove_surrogates(Tail(t))

IsLetter(c) ==
    c \in {"a", "b", "c", "d", "e", "f", "g", "h", "i", "j", "k", "l", "m",
           "n", "o", "p", "q", "r", "s", "t", "u", "v", "w", "x", "y", "z"}

Count(s, c, a, b) == Cardinality({k \in a..b : s[k] = c})

\* A tag starts at p with "<" and a letter, or "</" and a letter, and ends
\* at the first ">" outside double quotes: the index of that ">", else 0.
HtmlTagEnd(s, p) ==
    LET n == Len(s)
        opens == /\ p + 1 <= n /\ s[p] = "<"
                 /\ \/ IsLetter(s[p + 1])
                    \/ s[p + 1] = "/" /\ p + 2 <= n /\ IsLetter(s[p + 2])
        ends == {q \in (p + 2)..n : s[q] = ">" /\ Count(s, "\"", p, q) % 2 = 0}
    IN  IF ~opens \/ ends = {} THEN 0 ELSE Min(ends)

\* The entity kind of a tag name.
HtmlKind(name) ==
    CASE name = <<"b">> -> "Bold"
      [] name = <<"i">> -> "Italic"
      [] name = <<"u">> -> "Underline"
      [] name = <<"s">> -> "Strike"
      [] name = <<"c", "o", "d", "e">> -> "Code"
      [] name = <<"p", "r", "e">> -> "Pre"
      [] name = <<"s", "p", "o", "i", "l", "e", "r">> -> "Spoiler"
      [] name = TagBlockquote -> "Blockquote"
      [] name = <<"a">> -> "TextUrl"
      [] OTHER -> "none"

\* The value of attribute key="..." in attrs: has is FALSE when absent.
AttrValue(attrs, key) ==
    LET at == Find(attrs, key \o <<"=", "\"">>, 1)
        from == at + Len(key) + 2
        close == Find(attrs, <<"\"">>, from)
    IN  IF at = 0 \/ close = 0 THEN [has |-> FALSE, value |-> <<>>]
        ELSE [has |-> TRUE, value |-> SubSeq(attrs, from, close - 1)]

\* The parser's state: st = [text, building, entities]; building holds the
\* (tag name, entity) pairs of the tags open now.
HtmlStartTag(st, body) ==
    LET sp == Find(body, <<" ">>, 1)
        name == IF sp = 0 THEN body ELSE SubSeq(body, 1, sp - 1)
        attrs == IF sp = 0 THEN <<>> ELSE DropN(body, sp)
        kind == HtmlKind(name)
        href == AttrValue(attrs, <<"h", "r", "e", "f">>)
        lang == AttrValue(attrs, <<"l", "a", "n", "g", "u", "a", "g", "e">>)
        isOpen == \E k \in 1..Len(st.building) : st.building[k][1] = name
        e == Entity(kind, Len(st.text), 0,
                    CASE kind = "TextUrl" -> href.value
                      [] kind = "Pre" -> lang.value
                      [] OTHER -> <<>>,
                    0,
                    kind = "Blockquote"
                    /\ attrs = DropN(TagBlockquoteExpandable, Len(TagBlockquote) + 1))
    IN  IF kind = "none" \/ isOpen \/ (kind = "TextUrl" /\ ~href.has) THEN st
        ELSE [st EXCEPT !.building = Append(@, <<name, e>>)]

HtmlData(st, c) ==
    LET grown(b) == <<b[1], [b[2] EXCEPT !.length = @ + 1]>>
    IN  [text |-> Append(st.text, c),
         building |-> [k \in 1..Len(st.building) |-> grown(st.building[k])],
         entities |-> st.entities]

HtmlEndTag(st, name) ==
    LET hit == {k \in 1..Len(st.building) : st.building[k][1] = name}
    IN  IF hit = {} THEN st
        ELSE LET k == Min(hit)
             IN  [st EXCEPT !.entities = Append(@, st.building[k][2]),
                            !.building = SubSeq(@, 1, k - 1) \o DropN(@, k)]

RECURSIVE HtmlScan(_, _, _)
HtmlScan(s, p, st) ==
    IF p > Len(s) THEN st
    ELSE LET e == HtmlTagEnd(s, p)
             body == SubSeq(s, p + 1, e - 1)
         IN  IF e = 0 THEN HtmlScan(s, p + 1, HtmlData(st, s[p]))
             ELSE HtmlScan(s, e + 1,
                      IF body[1] = "/" THEN HtmlEndTag(st, Tail(body))
                      ELSE HtmlStartTag(st, body))

\* html.parse(text): (plain text, entities); offsets and lengths count
\* UTF-16 code units; a tag never closed gives no entity.
HtmlParse(t) ==
    LET st == HtmlScan(add_surrogates(t), 1,
                       [text |-> <<>>, building |-> <<>>, entities |-> <<>>])
    IN  [text |-> remove_surrogates(st.text), entities |-> st.entities]

-----------------------------------------------------------------------------
(* parse, lines 89-180, as one function. *)

\* The locals not bound anew: what the previous call left in them.
StaleLocals(old) == old

\* Lines 97-99: the values the three locals are bound to on entry.  old is
\* what the previous call left in them.
FreshLocals(old) ==
    [delims |-> {}, is_fixed_width |-> FALSE, placeholders |-> <<>>]

Identity(n) == [k \in 1..n |-> k]

\* The state the tokenizer loop starts in, after lines 95-105.
TokStart(t, locals) ==
    LET sh == Shield(blockquote_parser(t), locals.placeholders)
    IN  [text |-> sh.text, origin |-> Identity(Len(sh.text)),
         delims |-> locals.delims, is_fixed_width |-> locals.is_fixed_width,
         placeholders |-> sh.placeholders]

\* Lines 157-180: what parse returns from the text the loop ends with.
ParseReturnValue(t, phs) ==
    LET h == HtmlParse(Restore(t, phs, 1))
    IN  [text |-> h.text, entities |-> Normalize(h.entities)]

EmptyLocals == [delims |-> {}, is_fixed_width |-> FALSE, placeholders |-> <<>>]

parse(t) ==
    IF t = <<>> THEN [text |-> t, entities |-> <<>>]
    ELSE LET s0 == TokStart(t, FreshLocals(EmptyLocals))
             s1 == TokLoop([text |-> s0.text, origin |-> s0.origin,
                            delims |-> s0.delims,
                            is_fixed_width |-> s0.is_fixed_width],
                           FindIter(s0.text, 1), 1)
         IN  ParseReturnValue(s1.text, s0.placeholders)

-----------------------------------------------------------------------------
(* unparse, lines 182-235. *)

\* Which branch of lines 194-225 an entity takes.
UnparseCase(e) ==
    IF e.kind \in {"CustomEmoji", "Spoiler", "Bold", "Italic", "Underline",
                   "Strike", "Code", "Pre", "TextUrl", "MentionName"}
    THEN "pair"
    ELSE IF e.kind = "Blockquote" THEN "quote" ELSE "skip"

\* StartTag with the branch of Underline a copy of the branch of Italic.
StartTagCopied(e) ==
    CASE e.kind \in {"CustomEmoji", "TextUrl", "MentionName"} -> <<"[">>
      [] e.kind = "Spoiler" -> SPOILER_DELIM
      [] e.kind = "Bold" -> BOLD_DELIM
      [] e.kind \in {"Italic", "Underline"} -> ITALIC_DELIM
      [] e.kind = "Strike" -> STRIKE_DELIM
      [] e.kind = "Code" -> CODE_DELIM
      [] e.kind = "Pre" -> PRE_DELIM \o e.url \o <<"\n">>
      [] e.kind = "Blockquote" ->
            (IF e.collapsed THEN BLOCKQUOTE_EXPANDABLE_DELIM ELSE BLOCKQUOTE_DELIM)
            \o <<" ">>
      [] OTHER -> <<>>

\* start_tag, lines 194-221
StartTag(e) ==
    CASE e.kind \in {"CustomEmoji", "TextUrl", "MentionName"} -> <<"[">>
      [] e.kind = "Spoiler" -> SPOILER_DELIM
      [] e.kind = "Bold" -> BOLD_DELIM
      [] e.kind = "Italic" -> ITALIC_DELIM
      [] e.kind = "Underline" -> UNDERLINE_DELIM
      [] e.kind = "Strike" -> STRIKE_DELIM
      [] e.kind = "Code" -> CODE_DELIM
      [] e.kind = "Pre" -> PRE_DELIM \o e.url \o <<"\n">>
      [] e.kind = "Blockquote" ->
            (IF e.collapsed THEN BLOCKQUOTE_EXPANDABLE_DELIM ELSE BLOCKQUOTE_DELIM)
            \o <<" ">>
      [] OTHER -> <<>>

\* end_tag, lines 194-215
EndTag(e) ==
    CASE e.kind = "CustomEmoji" ->
            <<"]", "(", "e", "m", "o", "j", "i", "/">> \o IntToStr(e.id) \o <<")">>
      [] e.kind = "TextUrl" -> <<"]", "(">> \o e.url \o <<")">>
      [] e.kind = "MentionName" ->
            <<"]", "(", "t", "g", ":", "/", "/", "u", "s", "e", "r", "?", "i", "d", "=">>
            \o IntToStr(e.id) \o <<")">>
      [] e.kind = "Pre" -> <<"\n">> \o PRE_DELIM
      [] e.kind \in {"Spoiler", "Bold", "Italic", "Underline", "Strike", "Code"} ->
            StartTag(e)
      [] OTHER -> <<>>

\* The pairs one entity appends to entities_offsets, lines 222-228.  A pair
\* is [tag, offset]; ent (the index of the entity in the list) and side say
\* where the pair comes from and are read by no step of unparse.
Token(tag, offset, k, side) ==
    [tag |-> tag, offset |-> offset, ent |-> k, side |-> side]

EntityTokens(e, k) ==
    CASE UnparseCase(e) = "pair" ->
            << Token(StartTag(e), e.offset, k, "start"),
               Token(EndTag(e), e.offset + e.length, k, "end") >>
      [] UnparseCase(e) = "quote" -> << Token(StartTag(e), e.offset, k, "start") >>
      [] OTHER -> <<>>

RECURSIVE BuildLoop(_, _)
BuildLoop(es, k) ==
    IF k > Len(es) THEN <<>> ELSE EntityTokens(es[k], k) \o BuildLoop(es, k + 1)

\* SortInsert without reverse=True: x goes before the first element with a
\* larger offset.
SortInsertAscending(sorted, x) ==
    LET larger == {i \in 1..Len(sorted) : sorted[i].offset > x.offset}
        at == IF larger = {} THEN Len(sorted) + 1 ELSE Min(larger)
    IN  SubSeq(sorted, 1, at - 1) \o <<x>> \o DropN(sorted, at - 1)

\* x goes before the first element of the sorted list with a smaller
\* offset: after every element with the same offset that came before it.
SortInsert(sorted, x) ==
    LET smaller == {i \in 1..Len(sorted) : sorted[i].offset < x.offset}
        at == IF smaller = {} THEN Len(sorted) + 1 ELSE Min(smaller)
    IN  SubSeq(sorted, 1, at - 1) \o <<x>> \o DropN(sorted, at - 1)

\* Line 230: list.sort(key=offset, reverse=True), a stable sort.
RECURSIVE SortDescending(_, _)
SortDescending(toks, sorted) ==
    IF toks = <<>> THEN sorted
    ELSE SortDescending(Tail(toks), SortInsert(sorted, toks[1]))

\* Line 233: text[:offset] + tag + text[offset:], the slices clamped to the
\* text as Python clamps them (offset >= 0).
InsertAt(t, tag, offset) == TakeN(t, offset) \o tag \o DropN(t, offset)

RECURSIVE SpliceLoop(_, _, _)
SpliceLoop(t, toks, i) ==
    IF i > Len(toks) THEN t
    ELSE SpliceLoop(InsertAt(t, toks[i].tag, toks[i].offset), toks, i + 1)

unparse(t, es) ==
    IF t = <<>> THEN t
    ELSE remove_surrogates(
            SpliceLoop(add_surrogates(t), SortDescending(BuildLoop(es, 1), <<>>), 1))

-----------------------------------------------------------------------------
(* The inputs of blockquote_parser: up to MaxLines lines of LinePool. *)

LinePool ==
    { <<>>, <<"a">>, <<"c">>, <<">", "a">>, <<">", "b">>, <<">">>,
      <<">", " ", "a", " ">>, <<"*", "*", ">", "x">>, <<" ", ">", "a">> }

LineSeqs == UNION {[1..n -> LinePool] : n \in 1..MaxLines}

BqInputs == {Join(ls, "\n") : ls \in LineSeqs}

-----------------------------------------------------------------------------
(* The values of the variables a specification does not use. *)

NoBq == lines = <<>> /\ li = 0 /\ result = <<>> /\ in_blockquote = FALSE
NoLocals == delims = {} /\ is_fixed_width = FALSE /\ placeholders = <<>>
NoScan == origin = <<>> /\ matches = <<>> /\ mi = 0
NoUnparse ==
    entities = <<>> /\ ei = 0 /\ entities_offsets = <<>> /\ oi = 0 /\ marks = <<>>
NoCall ==
    arg_text = <<>> /\ arg_entities = <<>> /\ markup = <<>> /\ stale = FALSE
    /\ ret = <<>>

-----------------------------------------------------------------------------
(* blockquote_parser as a process: one step per line of the loop. *)

BqInit ==
    /\ pc = "bq_loop"
    /\ arg_text \in BqInputs
    /\ lines = Split(BqNormalise(arg_text), "\n")
    /\ li = 1
    /\ result = <<>>
    /\ in_blockquote = FALSE
    /\ arg_entities = <<>> /\ markup = <<>> /\ stale = FALSE /\ ret = <<>>
    /\ text = <<>>
    /\ NoLocals /\ NoScan /\ NoUnparse

BqStepTo(st) ==
    /\ result' = st.result
    /\ in_blockquote' = st.in_blockquote
    /\ li' = li + 1
    /\ UNCHANGED <<callVars, lines, text, localVars, scanVars, unVars>>

BqState == [result |-> result, in_blockquote |-> in_blockquote]

\* Lines 57-70: a quote line with no block open.
BqOpen ==
    /\ pc = "bq_loop" /\ li <= Len(lines)
    /\ BqIsQuoteLine(lines[li]) /\ ~in_blockquote
    /\ BqStepTo(BqLine(BqState, lines[li]))

\* Lines 71-77: a quote line with a block open.
BqContinue ==
    /\ pc = "bq_loop" /\ li <= Len(lines)
    /\ BqIsQuoteLine(lines[li]) /\ in_blockquote
    /\ BqStepTo(BqLine(BqState, lines[li]))

\* Lines 78-82: any other line.
BqPlain ==
    /\ pc = "bq_loop" /\ li <= Len(lines)
    /\ ~BqIsQuoteLine(lines[li])
    /\ BqStepTo(BqLine(BqState, lines[li]))

\* Lines 84-87.
BqReturn ==
    /\ pc = "bq_loop" /\ li > Len(lines)
    /\ result' = (IF in_blockquote THEN BqCloseLast(result) ELSE result)
    /\ ret' = BqReturnValue(BqState)
    /\ pc' = "bq_done"
    /\ UNCHANGED <<arg_text, arg_entities, markup, stale, lines, li,
                   in_blockquote, text, localVars, scanVars, unVars>>

BqNext == BqOpen \/ BqContinue \/ BqPlain \/ BqReturn

SpecBq == BqInit /\ [][BqNext]_vars

-----------------------------------------------------------------------------
(* The inputs of parse: up to MaxPieces pieces of RawPool, and up to         *)
(* MaxConstructs constructs of ConstructPool, each of them balanced.         *)

RawPool == { <<"a">>, BOLD_DELIM, CODE_DELIM, <<">">>, <<"\n">> }

ConstructPool ==
    { <<"a">>,
      BOLD_DELIM \o <<"a">> \o BOLD_DELIM,
      ITALIC_DELIM \o <<"b">> \o ITALIC_DELIM,
      CODE_DELIM \o <<"c">> \o CODE_DELIM,
      <<"[", "x", "]", "(", "u", ")">>,
      <<"\n", ">", " ", "q", "\n">>,
      <<"\n", ">", " ", "q", "\n", ">", " ", "r", "\n">>,
      PRE_DELIM \o <<"\n", "c", "\n">> \o PRE_DELIM }

RECURSIVE Concat(_)
Concat(ss) == IF ss = <<>> THEN <<>> ELSE ss[1] \o Concat(Tail(ss))

SeqsUpTo(S, n) == UNION {[1..k -> S] : k \in 0..n}

RawTexts == {Concat(ps) : ps \in SeqsUpTo(RawPool, MaxPieces)}

WellFormedTexts == {Concat(cs) : cs \in SeqsUpTo(ConstructPool, MaxConstructs)}

\* Texts that hold code sections tagged already, and the text of a
\* placeholder.
TaggedPool ==
    { CodeOpen \o <<"c">> \o CodeClose, CodeOpen \o BOLD_DELIM \o CodeClose,
      BOLD_DELIM, <<"a">>, Placeholder(0) }

TaggedTexts == {Concat(cs) : cs \in SeqsUpTo(TaggedPool, MaxConstructs)}

\* Texts in which a link sits in a code span, in which a link or a pair of
\* delimiters comes before a pre block with a language, and texts with
\* tokens of the kinds underline, strike and spoiler.
MixedPool ==
    { <<"[", "x", "]", "(", "u", ")">>,
      UNDERLINE_DELIM \o STRIKE_DELIM \o <<"a">> \o SPOILER_DELIM,
      CODE_DELIM \o <<"[", "x", "]", "(", "u", ")">> \o CODE_DELIM,
      BOLD_DELIM \o <<"a">> \o BOLD_DELIM,
      PRE_DELIM \o <<"p", "\n", "c", "\n">> \o PRE_DELIM }

ParseInputs ==
    RawTexts \cup WellFormedTexts \cup TaggedTexts
    \cup {Concat(cs) : cs \in SeqsUpTo(MixedPool, MaxConstructs)}

-----------------------------------------------------------------------------
(* parse as a process: the call, one step per match of the loop of lines   *)
(* 108-155, the return.                                                    *)

Locals == [delims |-> delims, is_fixed_width |-> is_fixed_width,
           placeholders |-> placeholders]

\* Lines 89-108, called with t: the early return of an empty text, else
\* everything up to the list of matches.
ParseBegin(t) ==
    /\ stale' = (Locals # EmptyLocals)
    /\ arg_text' = t
    /\ IF t = <<>>
       THEN /\ ret' = [text |-> t, entities |-> <<>>]
            /\ pc' = "parsed"
            /\ UNCHANGED <<text, localVars, scanVars>>
       ELSE LET s0 == TokStart(t, FreshLocals(Locals))
            IN  /\ text' = s0.text
                /\ origin' = s0.origin
                /\ delims' = s0.delims
                /\ is_fixed_width' = s0.is_fixed_width
                /\ placeholders' = s0.placeholders
                /\ matches' = FindIter(s0.text, 1)
                /\ mi' = 1
                /\ pc' = "scan"
                /\ ret' = ret
    /\ UNCHANGED <<arg_entities, markup, bqVars, unVars>>

ParseCall ==
    /\ pc = "idle"
    /\ \E t \in ParseInputs : ParseBegin(t)

TokState == [text |-> text, origin |-> origin, delims |-> delims,
             is_fixed_width |-> is_fixed_width]

\* The loop is at a match that takes branch c.
AtMatch(c) ==
    /\ pc = "scan" /\ mi <= Len(matches)
    /\ TokCase(matches[mi], is_fixed_width, delims) = c

\* The loop body on the match the loop is at.
TokBody ==
    /\ LET st == TokStep(TokState, matches[mi])
       IN  /\ text' = st.text
           /\ origin' = st.origin
           /\ delims' = st.delims
           /\ is_fixed_width' = st.is_fixed_width
    /\ mi' = mi + 1
    /\ UNCHANGED <<callVars, bqVars, placeholders, matches, unVars>>

\* Lines 116-117
TokSkip ==
    /\ AtMatch("skip")
    /\ TokBody

\* Lines 119-126
TokLink ==
    /\ AtMatch("link")
    /\ TokBody

\* Lines 140-149
TokOpenPre ==
    /\ AtMatch("open_pre")
    /\ TokBody

\* Lines 140-141, 150, 155
TokOpen ==
    /\ AtMatch("open")
    /\ TokBody

\* Lines 151-155
TokClose ==
    /\ AtMatch("close")
    /\ TokBody

\* Lines 157-180
ParseReturn ==
    /\ pc = "scan" /\ mi > Len(matches)
    /\ ret' = ParseReturnValue(text, placeholders)
    /\ pc' = "parsed"
    /\ UNCHANGED <<arg_text, arg_entities, markup, stale, bqVars, text, localVars,
                   scanVars, unVars>>

-----------------------------------------------------------------------------
(* unparse as a process: the call, one step per entity of the loop of      *)
(* lines 190-228, the sort, one step per pair of the loop of lines         *)
(* 232-233, the return.                                                    *)

\* The id of a token in marks.
TokenId(tok) == 2 * tok.ent + (IF tok.side = "end" THEN 1 ELSE 0)

\* UnparseBegin without the test of lines 184-185.
UnparseBeginUnguarded(t, es) ==
    /\ arg_text' = t
    /\ arg_entities' = es
    /\ entities' = es
    /\ text' = add_surrogates(t)
    /\ marks' = Zeros(Len(add_surrogates(t)))
    /\ entities_offsets' = <<>>
    /\ ei' = 1
    /\ oi' = 0
    /\ pc' = "build"
    /\ ret' = ret
    /\ UNCHANGED <<bqVars, localVars, scanVars>>

\* Lines 182-188, called with (t, es).
UnparseBegin(t, es) ==
    /\ arg_text' = t
    /\ arg_entities' = es
    /\ entities' = es
    /\ IF t = <<>>
       THEN /\ ret' = t
            /\ pc' = "unparsed"
            /\ UNCHANGED <<text, ei, entities_offsets, oi, marks>>
       ELSE /\ text' = add_surrogates(t)
            /\ marks' = Zeros(Len(add_surrogates(t)))
            /\ entities_offsets' = <<>>
            /\ ei' = 1
            /\ oi' = 0
            /\ pc' = "build"
            /\ ret' = ret
    /\ UNCHANGED <<bqVars, localVars, scanVars>>

\* The loop of lines 190-228 is at an entity that takes branch c.
AtEntity(c) ==
    /\ pc = "build" /\ ei <= Len(entities)
    /\ UnparseCase(entities[ei]) = c

\* The loop body on the entity the loop is at.
UnBuildBody ==
    /\ entities_offsets' = entities_offsets \o EntityTokens(entities[ei], ei)
    /\ ei' = ei + 1
    /\ UNCHANGED <<callVars, bqVars, text, localVars, scanVars, entities, oi, marks>>

\* Lines 194-215, 227-228
UnBuildPair ==
    /\ AtEntity("pair")
    /\ UnBuildBody

\* Lines 216-223
UnBuildQuote ==
    /\ AtEntity("quote")
    /\ UnBuildBody

\* Lines 224-225
UnBuildSkip ==
    /\ AtEntity("skip")
    /\ UnBuildBody

\* Line 230
UnSort ==
    /\ pc = "build" /\ ei > Len(entities)
    /\ entities_offsets' = SortDescending(entities_offsets, <<>>)
    /\ oi' = 1
    /\ pc' = "splice"
    /\ UNCHANGED <<arg_text, arg_entities, markup, stale, ret, bqVars, text,
                   localVars, scanVars, entities, ei, marks>>

\* Lines 232-233
UnSplice ==
    /\ pc = "splice" /\ oi <= Len(entities_offsets)
    /\ LET tok == entities_offsets[oi]
       IN  /\ text' = InsertAt(text, tok.tag, tok.offset)
           /\ marks' = InsertAt(marks, [k \in 1..Len(tok.tag) |-> TokenId(tok)],
                                tok.offset)
    /\ oi' = oi + 1
    /\ UNCHANGED <<callVars, bqVars, localVars, scanVars, entities, ei,
                   entities_offsets>>

\* Line 235
UnReturn ==
    /\ pc = "splice" /\ oi > Len(entities_offsets)
    /\ ret' = remove_surrogates(text)
    /\ pc' = "unparsed"
    /\ UNCHANGED <<arg_text, arg_entities, markup, stale, bqVars, text, localVars,
                   scanVars, unVars>>

-----------------------------------------------------------------------------
(* The calls of a client: parse, then unparse of what parse returned, or a *)
(* next call.  When a call is over its frame is gone; the model keeps, of   *)
(* the frame of parse, the three locals of lines 97-99 as the call left     *)
(* them, so that a next call that failed to bind them anew would show.      *)

\* unparse of the text and the entities parse returned
UnparseResult ==
    /\ pc = "parsed"
    /\ markup' = arg_text
    /\ stale' = stale
    /\ UnparseBegin(ret.text, ret.entities)

Drop ==
    /\ pc \in {"parsed", "unparsed"}
    /\ pc' = "idle"
    /\ arg_text' = <<>> /\ arg_entities' = <<>> /\ markup' = <<>>
    /\ stale' = FALSE /\ ret' = <<>>
    /\ text' = <<>>
    /\ origin' = <<>> /\ matches' = <<>> /\ mi' = 0
    /\ entities' = <<>> /\ ei' = 0 /\ entities_offsets' = <<>> /\ oi' = 0
    /\ marks' = <<>>
    /\ UNCHANGED <<bqVars, localVars>>

Init ==
    /\ pc = "idle"
    /\ NoCall /\ NoBq /\ text = <<>> /\ NoLocals /\ NoScan /\ NoUnparse

Next ==
    \/ ParseCall \/ TokSkip \/ TokLink \/ TokOpenPre \/ TokOpen \/ TokClose
    \/ ParseReturn
    \/ UnparseResult \/ UnBuildPair \/ UnBuildQuote \/ UnSort \/ UnSplice
    \/ UnReturn
    \/ Drop

Spec == Init /\ [][Next]_vars

-----------------------------------------------------------------------------
(* unparse on its own: the texts and the entity lists it is called with.   *)

MaxEntities == 2

UnparseTexts == { <<>>, <<"a", "b">>, <<ASTRAL>> }

\* One entity of every kind of lines 194-225 over the first code unit, Pre
\* with and without a language, Blockquote collapsed and not, and Mention,
\* a kind unparse has no branch for.
KindPool ==
    { Plain("Bold", 0, 1), Plain("Italic", 0, 1), Plain("Underline", 0, 1),
      Plain("Strike", 0, 1), Plain("Spoiler", 0, 1), Plain("Code", 0, 1),
      Plain("Pre", 0, 1), Entity("Pre", 0, 1, <<"p", "y">>, 0, FALSE),
      Entity("TextUrl", 0, 1, <<"u">>, 0, FALSE),
      Entity("MentionName", 0, 1, <<>>, 42, FALSE),
      Entity("CustomEmoji", 0, 1, <<>>, 105, FALSE),
      Plain("Blockquote", 0, 1), Entity("Blockquote", 0, 1, <<>>, 0, TRUE),
      Plain("Mention", 0, 1) }

\* Bold, Italic and Blockquote at every offset and with every length up to
\* the number of code units of t: spans in the text and spans that leave it.
SpanPool(t) ==
    { [e EXCEPT !.offset = o, !.length = n] :
        e \in { Plain("Bold", 0, 0), Plain("Italic", 0, 0), Plain("Blockquote", 0, 0) },
        o \in 0..Len(add_surrogates(t)), n \in 0..Len(add_surrogates(t)) }

EntityPool(t) == KindPool \cup SpanPool(t)

UnparseCall ==
    /\ pc = "idle"
    /\ \E t \in UnparseTexts :
          \E es \in SeqsUpTo(EntityPool(t), MaxEntities) : UnparseBegin(t, es)
    /\ UNCHANGED <<markup, stale>>

UnparseNext ==
    \/ UnparseCall \/ UnBuildPair \/ UnBuildQuote \/ UnBuildSkip \/ UnSort
    \/ UnSplice \/ UnReturn
    \/ Drop

SpecUnparse == Init /\ [][UnparseNext]_vars

-----------------------------------------------------------------------------
(* The normalisation loop of parse, lines 165-178, on its own: one step    *)
(* per entity.                                                             *)

MaxIdLen == 2
MaxNormEntities == 2

\* What follows "emoji/" in a target.
IdChars == {"1", "-", "/"}
Remainders == UNION {[1..k -> IdChars] : k \in 0..MaxIdLen}

NormUrls ==
    {UrlEmojiPrefix \o r : r \in Remainders}
    \cup { UrlSpoiler, <<"u">>, <<"e", "m", "o", "j", "i">>,
           UrlEmojiPrefix \o UrlSpoiler, UrlEmojiPrefix \o <<"x">>,
           UrlEmojiPrefix \o <<"1", "2", "3">> }

NormPool ==
    {Entity("TextUrl", 0, 1, u, 0, FALSE) : u \in NormUrls}
    \cup { Plain("Bold", 1, 1), Plain("Spoiler", 0, 2),
           Entity("CustomEmoji", 0, 1, <<>>, 7, FALSE) }

NormInit ==
    /\ pc = "norm_loop"
    /\ entities \in SeqsUpTo(NormPool, MaxNormEntities)
    /\ arg_entities = entities
    /\ ei = 1
    /\ arg_text = <<>> /\ markup = <<>> /\ stale = FALSE /\ ret = <<>>
    /\ NoBq /\ text = <<>> /\ NoLocals /\ NoScan
    /\ entities_offsets = <<>> /\ oi = 0 /\ marks = <<>>

\* The loop is at an entity that takes branch c.
AtNorm(c) ==
    /\ pc = "norm_loop" /\ ei <= Len(entities)
    /\ NormCase(entities[ei]) = c

\* The loop body on the entity the loop is at.
NormBody ==
    /\ entities' = [entities EXCEPT ![ei] = NormOne(@)]
    /\ ei' = ei + 1
    /\ UNCHANGED <<callVars, bqVars, text, localVars, scanVars,
                   entities_offsets, oi, marks>>

\* Lines 167-170
NormSpoiler ==
    /\ AtNorm("spoiler")
    /\ NormBody

\* Lines 171-176
NormEmoji ==
    /\ AtNorm("emoji")
    /\ NormBody

\* Lines 177-178
NormFailed ==
    /\ AtNorm("failed")
    /\ NormBody

\* A link with another target
NormLink ==
    /\ AtNorm("link")
    /\ NormBody

\* Line 166, the test fails
NormOther ==
    /\ AtNorm("other")
    /\ NormBody

NormDone ==
    /\ pc = "norm_loop" /\ ei > Len(entities)
    /\ pc' = "norm_done"
    /\ ret' = entities
    /\ UNCHANGED <<arg_text, arg_entities, markup, stale, bqVars, text, localVars,
                   scanVars, unVars>>

NormNext ==
    \/ NormSpoiler \/ NormEmoji \/ NormFailed \/ NormLink \/ NormOther
    \/ NormDone

SpecNorm == NormInit /\ [][NormNext]_vars

-----------------------------------------------------------------------------
(* Properties of blockquote_parser, checked under SpecBq. *)

\* The number of occurrences of p in s.
Occurrences(s, p) ==
    Cardinality({i \in 1..(Len(s) - Len(p) + 1) : SubSeq(s, i, i + Len(p) - 1) = p})

EndsWith(s, p) == Len(s) >= Len(p) /\ SubSeq(s, Len(s) - Len(p) + 1, Len(s)) = p

\* Every opening blockquote tag, plain or expandable, starts with this.
QuoteOpening == <<"<">> \o TagBlockquote
QuoteClosing == CLOSING_TAG(TagBlockquote)

Total(f, n) ==
    LET sum[k \in 0..n] == IF k = 0 THEN 0 ELSE sum[k - 1] + f[k]
    IN  sum[n]

Opened(res) == Total([k \in 1..Len(res) |-> Occurrences(res[k], QuoteOpening)], Len(res))
Closed(res) == Total([k \in 1..Len(res) |-> Occurrences(res[k], QuoteClosing)], Len(res))

\* Line i of the input starts with ">", and is the first or the last line of
\* its run of such lines.
Quoted(i) == StartsWith(lines[i], <<">">>)
RunFirst(i) == Quoted(i) /\ (i = 1 \/ ~Quoted(i - 1))
RunLast(i) == Quoted(i) /\ (i = Len(lines) \/ ~Quoted(i + 1))

ExampleQuote == <<">", "a", "\n", ">", "b", "\n", "c">>

\* C4: with no block open, a line that starts with the expandable prefix
\* opens a block: the line emitted for it is the tag "blockquote
\* expandable" and the line without the prefix, and a block is open after it.
C4_ExpandableOpens ==
    [][ ( /\ pc = "bq_loop" /\ li <= Len(lines) /\ ~in_blockquote
          /\ StartsWith(lines[li], BLOCKQUOTE_EXPANDABLE_DELIM) )
        => ( /\ in_blockquote'
             /\ StartsWith(result'[li], OPENING_TAG(TagBlockquoteExpandable)) )
      ]_vars

\* C5: blockquote_parser emits one line for each line it reads; the line of
\* a ">"-line holds one opening tag, at its start, when it is the first of
\* its run, and none otherwise, and one closing tag, at its end, when it is
\* the last of its run, and none otherwise; a line that does not start with
\* ">" is emitted as it is; at most one block is open at any time; and
\* parse(">a\n>b\nc") is the text "a\nb\nc" with one Blockquote over "a\nb".
C5_BlockquoteGrouping ==
    /\ pc \in {"bq_loop", "bq_done"} =>
          /\ Opened(result) - Closed(result) = (IF in_blockquote /\ pc = "bq_loop" THEN 1 ELSE 0)
          /\ Len(result) = (IF pc = "bq_done" THEN Len(lines) ELSE li - 1)
    /\ pc = "bq_done" =>
          /\ ret = Join(result, "\n")
          /\ Len(Split(ret, "\n")) = Len(Split(arg_text, "\n"))
          /\ \A i \in 1..Len(lines) :
                /\ Occurrences(result[i], QuoteOpening) = (IF RunFirst(i) THEN 1 ELSE 0)
                /\ Occurrences(result[i], QuoteClosing) = (IF RunLast(i) THEN 1 ELSE 0)
                /\ RunFirst(i) => StartsWith(result[i], OPENING_TAG(TagBlockquote))
                /\ RunLast(i) => EndsWith(result[i], QuoteClosing)
                /\ ~Quoted(i) => result[i] = lines[i]
          /\ arg_text = ExampleQuote =>
                parse(arg_text) = [text |-> <<"a", "\n", "b", "\n", "c">>,
                                   entities |-> <<Plain("Blockquote", 0, 3)>>]

\* The example of C5 has gone through blockquote_parser: one block of two
\* lines, closed by the third.
C5_Witness ==
    /\ pc = "bq_done"
    /\ arg_text = ExampleQuote
    /\ ret = OPENING_TAG(TagBlockquote) \o <<"a", "\n", "b">> \o QuoteClosing
             \o <<"\n", "c">>

-----------------------------------------------------------------------------
(* Properties of parse, and of unparse of what parse returns, checked      *)
(* under Spec.                                                             *)

\* The pairs <<i, j>> of indexes of matches from p on such that match i is
\* a code or pre delimiter that opens a span and match j, the next match of
\* the same delimiter, closes it.  A delimiter with no later one of its kind
\* opens nothing.
RECURSIVE CodeSpans(_, _)
CodeSpans(ms, p) ==
    LET opens == {i \in p..Len(ms) : ms[i].delim \in FixedWidthDelims}
        i == Min(opens)
        closes == {j \in (i + 1)..Len(ms) : ms[j].delim = ms[i].delim}
    IN  IF opens = {} THEN {}
        ELSE IF closes = {} THEN CodeSpans(ms, i + 1)
        ELSE {<<i, Min(closes)>>} \cup CodeSpans(ms, Min(closes) + 1)

\* Match k is a delimiter other than code and pre inside a code or pre span.
Shielded(k) ==
    /\ matches[k].delim # <<>>
    /\ matches[k].delim \notin FixedWidthDelims
    /\ \E sp \in CodeSpans(matches, 1) : sp[1] < k /\ k < sp[2]

\* The characters match k matched are in the text still, side by side.
Literal(k) ==
    \E q \in 1..Len(origin) :
       \A d \in 0..(Len(matches[k].full) - 1) :
          q + d <= Len(origin) /\ origin[q + d] = matches[k].start + 1 + d

ExampleCode == CODE_DELIM \o BOLD_DELIM \o <<"a">> \o BOLD_DELIM \o CODE_DELIM

\* C1: a delimiter other than code and pre that lies between an opening code
\* or pre delimiter and its closing one stays in the text as it is, whatever
\* comes before or after the span; parse of a bold span in backquotes is
\* one Code entity over the whole inner text and no Bold entity.
C1_FixedWidthShielding ==
    /\ pc \in {"scan", "parsed"} =>
          \A k \in 1..Len(matches) : Shielded(k) => Literal(k)
    /\ (pc = "parsed" /\ arg_text = ExampleCode) =>
          ret = [text |-> BOLD_DELIM \o <<"a">> \o BOLD_DELIM,
                 entities |-> <<Plain("Code", 0, 5)>>]

NoSpaces(t) == SelectSeq(t, LAMBDA c : c # " ")

\* C3: for a text t made of balanced constructs that do not overlap,
\* unparse of what parse(t) returns is t; spaces are not compared at all here, which
\* allows more than the differences in the continuation lines of a
\* blockquote.
C3_RoundTrip ==
    (pc = "unparsed" /\ markup \in WellFormedTexts) =>
        NoSpaces(ret) = NoSpaces(markup)

\* C9: a call of parse starts its loop with delims empty, is_fixed_width
\* false and placeholders holding only the code sections of its own text,
\* and returns what parse returns for its text when it is the first call:
\* nothing an earlier call of parse or unparse left behind changes it.
C9_Stateless ==
    /\ (pc = "scan" /\ mi = 1) =>
          /\ delims = {}
          /\ is_fixed_width = FALSE
          /\ placeholders = Shield(blockquote_parser(arg_text), <<>>).placeholders
    /\ pc = "parsed" => ret = parse(arg_text)

\* A call of parse that has found entities has returned after an earlier
\* call ended inside a fixed-width region with a delimiter open.
C9_Witness ==
    /\ pc = "parsed"
    /\ stale
    /\ ret.entities # <<>>

-----------------------------------------------------------------------------
(* Properties of unparse, checked under SpecUnparse. *)

\* The first position of text that holds a code unit of the token id.
PosOf(id) == Min({p \in 1..Len(marks) : marks[p] = id})

\* The number of code units of the plain text before position p.
PlainBefore(p) == Cardinality({q \in 1..(p - 1) : marks[q] = 0})

\* t without the code units m marks as a token's.
RECURSIVE PlainOf(_, _)
PlainOf(t, m) ==
    IF t = <<>> THEN <<>>
    ELSE (IF m[1] = 0 THEN <<t[1]>> ELSE <<>>) \o PlainOf(Tail(t), Tail(m))

InBounds(e) ==
    0 <= e.offset /\ e.offset + e.length <= Len(add_surrogates(arg_text))

\* The offset the token is for: the start or the end of its entity.
TokenOffset(tok) ==
    IF tok.side = "start" THEN entities[tok.ent].offset
    ELSE entities[tok.ent].offset + entities[tok.ent].length

StartId(k) == 2 * k
EndId(k) == 2 * k + 1

\* C2: unparse("ab", [Bold(0, 1), Italic(1, 1)]) is "**a**__b__"; when an
\* entity ends at the offset where another one starts, the end token of the
\* first is before the start token of the second in the output, whatever
\* the order of the list.  (Entities of length 0 and pairs whose two tokens
\* are the same text are left out: the claim fails without them.)
C2_AdjacentSplice ==
    /\ ( /\ pc = "unparsed"
         /\ arg_text = <<"a", "b">>
         /\ arg_entities = <<Plain("Bold", 0, 1), Plain("Italic", 1, 1)>> )
       => ret = <<"*", "*", "a", "*", "*", "_", "_", "b", "_", "_">>
    /\ (pc = "unparsed" /\ arg_text # <<>>) =>
          \A i, j \in 1..Len(entities) :
             ( /\ i # j
               /\ UnparseCase(entities[i]) = "pair"
               /\ UnparseCase(entities[j]) \in {"pair", "quote"}
               /\ InBounds(entities[i]) /\ InBounds(entities[j])
               /\ entities[i].length > 0 /\ entities[j].length > 0
               /\ EndTag(entities[i]) # StartTag(entities[j])
               /\ entities[i].offset + entities[i].length = entities[j].offset )
             => PosOf(EndId(i)) < PosOf(StartId(j))

\* C8: when every entity lies in the text, no token is spliced in before a
\* position a token still to be spliced is for; every token spliced in has
\* before it as many code units of the plain text as its offset says; the
\* text without the tokens is the plain text; and the text returned holds
\* the same code units.
C8_SplicePositions ==
    ( /\ pc \in {"splice", "unparsed"}
      /\ arg_text # <<>>
      /\ \A k \in 1..Len(entities) : InBounds(entities[k]) )
    => /\ \A i \in oi..Len(entities_offsets) :
             \A p \in 1..entities_offsets[i].offset : marks[p] = 0
       /\ \A i \in 1..(oi - 1) :
             PlainBefore(PosOf(TokenId(entities_offsets[i])))
                = TokenOffset(entities_offsets[i])
       /\ PlainOf(text, marks) = add_surrogates(arg_text)
       /\ pc = "unparsed" => add_surrogates(ret) = text

\* unparse has returned for a text with a surrogate pair and two entities in
\* it at different offsets, each giving two tokens.
C8_Witness ==
    /\ pc = "unparsed"
    /\ arg_text = <<ASTRAL>>
    /\ Len(entities) = 2
    /\ \A k \in 1..2 : InBounds(entities[k]) /\ UnparseCase(entities[k]) = "pair"
    /\ entities[1].offset < entities[2].offset
    /\ entities[1].length = 2

\* The template table of the specification.
TemplateStart(e) ==
    CASE e.kind = "Bold" -> <<"*", "*">>
      [] e.kind = "Italic" -> <<"_", "_">>
      [] e.kind = "Underline" -> <<"-", "-">>
      [] e.kind = "Strike" -> <<"~", "~">>
      [] e.kind = "Spoiler" -> <<"|", "|">>
      [] e.kind = "Code" -> <<BQ>>
      [] e.kind = "Pre" -> <<BQ, BQ, BQ>> \o e.url \o <<"\n">>
      [] e.kind \in {"TextUrl", "MentionName", "CustomEmoji"} -> <<"[">>
      [] e.kind = "Blockquote" ->
            IF e.collapsed THEN <<"*", "*", ">", " ">> ELSE <<">", " ">>

TemplateEnd(e) ==
    CASE e.kind \in {"Bold", "Italic", "Underline", "Strike", "Spoiler", "Code"} ->
            TemplateStart(e)
      [] e.kind = "Pre" -> <<"\n", BQ, BQ, BQ>>
      [] e.kind = "TextUrl" -> <<"]", "(">> \o e.url \o <<")">>
      [] e.kind = "MentionName" ->
            <<"]", "(", "t", "g", ":", "/", "/", "u", "s", "e", "r", "?", "i", "d", "=">>
            \o IntToStr(e.id) \o <<")">>
      [] e.kind = "CustomEmoji" ->
            <<"]", "(", "e", "m", "o", "j", "i", "/">> \o IntToStr(e.id) \o <<")">>

TemplateKinds ==
    {"Bold", "Italic", "Underline", "Strike", "Spoiler", "Code", "Pre",
     "TextUrl", "MentionName", "CustomEmoji"}

TokensOf(k) == SelectSeq(entities_offsets, LAMBDA tok : tok.ent = k)

\* The token is in the text: its tag, marked as its own from end to end.
Emitted(tok) ==
    LET at == {p \in 1..Len(marks) : marks[p] = TokenId(tok)}
    IN  /\ Cardinality(at) = Len(tok.tag)
        /\ at # {}
        /\ at = Min(at)..(Min(at) + Len(tok.tag) - 1)
        /\ SubSeq(text, Min(at), Min(at) + Len(tok.tag) - 1) = tok.tag

\* C10: once the loop over the entities is over, entities_offsets holds for
\* an entity of the ten kinds with a pair of tokens its start token at its
\* offset and its end token at its end, both as the template table has
\* them, and no more; for a Blockquote its start token alone; for an entity
\* of any other kind nothing; and when unparse returns for entities that
\* lie in the text, every one of these tokens is in the text once, in one
\* piece, and nothing else was put in.
C10_TemplateTokens ==
    (pc \in {"splice", "unparsed"} /\ arg_text # <<>>) =>
       /\ \A k \in 1..Len(entities) :
             LET e == entities[k]
                 toks == TokensOf(k)
             IN  CASE e.kind \in TemplateKinds ->
                        /\ Len(toks) = 2
                        /\ \E i, j \in 1..2 :
                              /\ toks[i].side = "start"
                              /\ toks[i].tag = TemplateStart(e)
                              /\ toks[i].offset = e.offset
                              /\ toks[j].side = "end"
                              /\ toks[j].tag = TemplateEnd(e)
                              /\ toks[j].offset = e.offset + e.length
                   [] e.kind = "Blockquote" ->
                        /\ Len(toks) = 1
                        /\ toks[1].side = "start" /\ toks[1].tag = TemplateStart(e)
                        /\ toks[1].offset = e.offset
                   [] OTHER -> toks = <<>>
       /\ (pc = "unparsed" /\ \A k \in 1..Len(entities) : InBounds(entities[k])) =>
             /\ \A i \in 1..Len(entities_offsets) : Emitted(entities_offsets[i])
             /\ \A p \in 1..Len(marks) :
                   \/ marks[p] = 0
                   \/ \E i \in 1..Len(entities_offsets) :
                         TokenId(entities_offsets[i]) = marks[p]

\* unparse has returned for a list with an entity of a kind it has no
\* branch for, followed by an Underline entity.
C10_Witness ==
    /\ pc = "unparsed"
    /\ arg_text # <<>>
    /\ Len(entities) = 2
    /\ entities[1].kind = "Mention"
    /\ entities[2].kind = "Underline"
    /\ InBounds(entities[2])
    /\ Len(entities_offsets) = 2

-----------------------------------------------------------------------------
(* Properties of the normalisation loop, checked under SpecNorm. *)

\* What follows "emoji/" in a target that starts with it.
EmojiRemainder(url) == DropN(url, Len(UrlEmojiPrefix))

\* A non-negative integer in decimal digits.
IsNaturalText(t) == t # <<>> /\ \A k \in 1..Len(t) : IsDigit(t[k])

\* C6: a link whose target starts with "emoji/" becomes a CustomEmoji
\* exactly when all that follows "emoji/" is a non-negative integer, which
\* is then its document_id; with anything else after "emoji/" the entity
\* stays the link it was.
C6_EmojiSentinel ==
    pc \in {"norm_loop", "norm_done"} =>
       \A k \in 1..(ei - 1) :
          LET e == arg_entities[k]
              r == EmojiRemainder(e.url)
          IN  (e.kind = "TextUrl" /\ StartsWith(e.url, UrlEmojiPrefix)) =>
                 IF IsNaturalText(r)
                 THEN entities[k] = Entity("CustomEmoji", e.offset, e.length, <<>>,
                                           DigitsValue(r, 0), FALSE)
                 ELSE entities[k] = e

\* C7: the list the loop ends with is the normalisation of the list it got,
\* and normalising it once more changes nothing.
C7_Idempotent ==
    pc = "norm_done" =>
       /\ entities = Normalize(arg_entities)
       /\ Normalize(entities) = entities

\* The loop has ended on a list in which it has turned one link into a
\* CustomEmoji and left another link with an "emoji/" target a link.
C7_Witness ==
    /\ pc = "norm_done"
    /\ \E k \in 1..Len(entities) :
          arg_entities[k].kind = "TextUrl" /\ entities[k].kind = "CustomEmoji"
    /\ \E k \in 1..Len(entities) :
          /\ entities[k].kind = "TextUrl"
          /\ StartsWith(entities[k].url, UrlEmojiPrefix)

-----------------------------------------------------------------------------
(* unparse of any text of UnparseTexts with any list of entities, and     *)
(* parse of the empty text or of a text with no markup.                    *)

PlainTexts == { <<>>, <<"a">> }

ParsePlain ==
    /\ pc = "idle"
    /\ \E t \in PlainTexts : ParseBegin(t)

CallsNext ==
    \/ ParsePlain \/ ParseReturn
    \/ UnparseCall \/ UnBuildPair \/ UnBuildQuote \/ UnBuildSkip \/ UnSort
    \/ UnSplice \/ UnReturn
    \/ Drop

SpecCalls == Init /\ [][CallsNext]_vars

\* C11: a call with the empty text runs no step of either function: parse
\* returns the empty text with no entity, unparse returns the empty text
\* whatever the list of entities is.
C11_EmptyShortCircuit ==
    /\ (arg_text = <<>>) => pc \in {"idle", "parsed", "unparsed"}
    /\ (pc = "parsed" /\ arg_text = <<>>) =>
          ret = [text |-> <<>>, entities |-> <<>>]
    /\ (pc = "unparsed" /\ arg_text = <<>>) =>
          ret = <<>> /\ entities_offsets = <<>>

\* unparse has returned for the empty text and two entities of length 1, one
\* of them a Blockquote.
C11_Witness ==
    /\ pc = "unparsed"
    /\ arg_text = <<>>
    /\ Len(arg_entities) = 2
    /\ arg_entities[1].length > 0
    /\ arg_entities[2].kind = "Blockquote"

-----------------------------------------------------------------------------
(* Properties of the tokenizer loop, checked under Spec. *)

\* The loop is at the match m and the step taken is its pass of the body.
ScanStep == pc = "scan" /\ mi <= Len(matches) /\ mi' = mi + 1

\* C12: every link the scan has matched is rewritten to its <a> tag, with
\* the flag set or not: the pass of the loop on a link match puts the tag in
\* the text in the place of the characters of the link.
C12_LinksAlwaysRewritten ==
    [][ (ScanStep /\ matches[mi].text_url # <<>>) =>
           LET m == matches[mi]
               a == URL_MARKUP(m.url, m.text_url)
           IN  /\ Occurrences(text', a) = Occurrences(text, a) + 1
               /\ Len(text') = Len(text) + Len(a) - Len(m.full) ]_vars

\* The index in the text as it is now of the character that was at the
\* 0-based index k of the text the scan ran on, 0 when it is gone.
NowAt(k) ==
    IF \E i \in 1..Len(origin) : origin[i] = k + 1
    THEN CHOOSE i \in 1..Len(origin) : origin[i] = k + 1
    ELSE 0

\* The characters of t from the 1-based index p up to the next newline.
RestOfLine(t, p) ==
    LET nl == {q \in p..Len(t) : t[q] = "\n"}
    IN  SubSeq(t, p, IF nl = {} THEN Len(t) ELSE Min(nl) - 1)

\* C13: the pass of the loop on a pre token that opens a block replaces the
\* token and the rest of its line by the opening tag whose language is the
\* text between the token and the next newline, and leaves alone all that
\* comes before the token and all from the newline on.
C13_PreOpening ==
    [][ (ScanStep /\ TokCase(matches[mi], is_fixed_width, delims) = "open_pre") =>
           LET at == NowAt(matches[mi].start)
               lang == RestOfLine(text, at + Len(PRE_DELIM))
           IN  /\ at # 0
               /\ text' = SubSeq(text, 1, at - 1) \o PreOpening(lang)
                          \o DropN(text, at - 1 + Len(PRE_DELIM) + Len(lang)) ]_vars

\* The seven kinds of delimiter.
Kinds ==
    { <<"*", "*">>, <<"_", "_">>, <<"-", "-">>, <<"~", "~">>, <<"|", "|">>,
      <<BQ>>, <<BQ, BQ, BQ>> }

IsFence(d) == d = <<BQ>> \/ d = <<BQ, BQ, BQ>>

\* The match k of the scan is a token that is not suppressed: a code or a
\* pre token, or a token with an even number of code and pre tokens before
\* it.
Processed(k) ==
    /\ matches[k].delim \in Kinds
    /\ \/ IsFence(matches[k].delim)
       \/ Cardinality({j \in 1..(k - 1) : IsFence(matches[j].delim)}) % 2 = 0

\* The number of tokens of kind d processed among the first n matches.
ProcessedOf(d, n) ==
    Cardinality({k \in 1..n : matches[k].delim = d /\ Processed(k)})

\* The text that tells the opening tag of a kind from every other tag.
OpeningOf(d) ==
    CASE d = <<"*", "*">> -> <<"<", "b", ">">>
      [] d = <<"_", "_">> -> <<"<", "i", ">">>
      [] d = <<"-", "-">> -> <<"<", "u", ">">>
      [] d = <<"~", "~">> -> <<"<", "s", ">">>
      [] d = <<"|", "|">> -> <<"<", "s", "p", "o", "i", "l", "e", "r", ">">>
      [] d = <<BQ>> -> <<"<", "c", "o", "d", "e", ">">>
      [] d = <<BQ, BQ, BQ>> ->
            <<"<", "p", "r", "e", " ", "l", "a", "n", "g", "u", "a", "g", "e", "=">>

ClosingOf(d) ==
    CASE d = <<"*", "*">> -> <<"<", "/", "b", ">">>
      [] d = <<"_", "_">> -> <<"<", "/", "i", ">">>
      [] d = <<"-", "-">> -> <<"<", "/", "u", ">">>
      [] d = <<"~", "~">> -> <<"<", "/", "s", ">">>
      [] d = <<"|", "|">> -> <<"<", "/", "s", "p", "o", "i", "l", "e", "r", ">">>
      [] d = <<BQ>> -> <<"<", "/", "c", "o", "d", "e", ">">>
      [] d = <<BQ, BQ, BQ>> -> <<"<", "/", "p", "r", "e", ">">>

\* The step has put a text that starts with tag in the place of n characters
\* of the text, for some n of ns, and has left the rest of the text alone.
Emits(tag, ns) ==
    \E at \in 1..Len(text), n \in ns :
       LET rest == DropN(text, at - 1 + n)
           put == Len(text') - (at - 1) - Len(rest)
       IN  /\ at - 1 + n <= Len(text)
           /\ put >= Len(tag)
           /\ SubSeq(text', 1, at - 1) = SubSeq(text, 1, at - 1)
           /\ DropN(text', at - 1 + put) = rest
           /\ StartsWith(DropN(text', at - 1), tag)

\* The lengths of what a token of kind d is replaced with its tag: the
\* token, and for a pre token that opens a block the rest of the line too.
Replaced(d, opens) ==
    IF opens /\ d = <<BQ, BQ, BQ>> THEN Len(d)..Len(text) ELSE {Len(d)}

\* C14: the pass of the loop on a token that is not suppressed puts in the
\* text an opening tag of its kind and adds the kind to the open set when
\* the kind is not in it, else puts in a closing tag and takes the kind out;
\* the other kinds stay as they are; a suppressed token and a link change
\* nothing of the open set; and after every pass a kind is in the open set
\* exactly when an odd number of its tokens have been processed.  The return
\* leaves the text and the open set as the scan left them.
C14_SequentialPairing ==
    [][ /\ ScanStep =>
            LET d == matches[mi].delim
            IN  /\ IF d \in Kinds /\ Processed(mi)
                   THEN IF d \notin delims
                        THEN /\ delims' = delims \cup {d}
                             /\ Emits(OpeningOf(d), Replaced(d, TRUE))
                        ELSE /\ delims' = delims \ {d}
                             /\ Emits(ClosingOf(d), Replaced(d, FALSE))
                   ELSE delims' = delims
                /\ \A k \in Kinds : k \in delims' <=> ProcessedOf(k, mi) % 2 = 1
        /\ (pc = "scan" /\ pc' = "parsed") =>
              /\ text' = text /\ delims' = delims
              /\ \A k \in Kinds : k \in delims <=> ProcessedOf(k, Len(matches)) % 2 = 1
      ]_vars

\* The scan is over for a text with a code span that holds a suppressed
\* bold token and is followed by a bold token that opened and was never
\* closed.
C14_Witness ==
    /\ pc = "parsed"
    /\ <<"*", "*">> \in delims
    /\ <<BQ>> \notin delims
    /\ \E k \in 1..Len(matches) : matches[k].delim = <<"*", "*">> /\ ~Processed(k)
    /\ ProcessedOf(<<"*", "*">>, Len(matches)) = 1
    /\ ProcessedOf(<<BQ>>, Len(matches)) = 2

\* Where lines 102-105 put the placeholders: for each code section, in the
\* order found, the index of its placeholder in the shielded text, the
\* length of the placeholder and the section.
RECURSIVE ShieldSpots(_, _, _)
ShieldSpots(cur, sections, i) ==
    IF i > Len(sections) THEN <<>>
    ELSE <<[at |-> Find(cur, sections[i], 1), n |-> Len(Placeholder(i - 1)),
            section |-> sections[i]]>>
         \o ShieldSpots(ReplaceFirst(cur, sections[i], Placeholder(i - 1)),
                        sections, i + 1)

Spots ==
    LET t == blockquote_parser(arg_text) IN ShieldSpots(t, CodeSections(t, 1), 1)

\* The placeholder of spot sp stands whole in the text at the index k.
SpotAt(sp, k) ==
    /\ k + sp.n - 1 <= Len(text)
    /\ \A j \in 0..(sp.n - 1) : origin[k + j] = sp.at + j

\* The text t with the placeholders of the first i spots that stand whole
\* in the text replaced by their sections, and nothing else changed.  The
\* spots are in the order of the text: the last is replaced first, which
\* leaves the others where they are.
RECURSIVE Unshielded(_, _)
Unshielded(t, i) ==
    IF i = 0 THEN t
    ELSE IF \E k \in 1..Len(text) : SpotAt(Spots[i], k)
         THEN LET k == CHOOSE k \in 1..Len(text) : SpotAt(Spots[i], k)
              IN  Unshielded(SubSeq(t, 1, k - 1) \o Spots[i].section
                             \o DropN(t, k - 1 + Spots[i].n), i - 1)
         ELSE Unshielded(t, i - 1)

\* C15: when the scan is over, the text handed to the tag parser is the text
\* the scan ended with, in which every placeholder that shielding put in
\* stands whole, with each of these placeholders replaced by the code
\* section it stands for and nothing else changed.
C15_ShieldRoundTrip ==
    (pc = "parsed" /\ arg_text # <<>>) =>
       /\ \A i \in 1..Len(Spots) : \E k \in 1..Len(text) : SpotAt(Spots[i], k)
       /\ Restore(text, placeholders, 1) = Unshielded(text, Len(Spots))

-----------------------------------------------------------------------------
(* More properties of blockquote_parser, checked under SpecBq. *)

\* The loop of blockquote_parser is at a line that starts with one of the
\* two prefixes.
AtPrefixedLine ==
    /\ pc = "bq_loop" /\ li <= Len(lines)
    /\ \/ StartsWith(lines[li], <<">">>)
       \/ StartsWith(lines[li], <<"*", "*", ">">>)

\* The line without the prefix it starts with.
Unprefixed(line) ==
    IF StartsWith(line, <<"*", "*", ">">>) THEN DropN(line, 3) ELSE DropN(line, 1)

\* C16: with a block open, a line that starts with ">" or with "**>" is
\* emitted as one more line of the block: the lines emitted so far stay as
\* they are, with no closing tag added, the line emitted is the line
\* without its prefix (spaces apart) and with no opening tag, and the block
\* stays open.
C16_MixedContinuation ==
    [][ (AtPrefixedLine /\ in_blockquote) =>
           /\ in_blockquote'
           /\ Len(result') = Len(result) + 1
           /\ SubSeq(result', 1, Len(result)) = result
           /\ NoSpaces(result'[li]) = NoSpaces(Unprefixed(lines[li])) ]_vars

\* The line without its prefix and without the one space that may follow
\* the prefix.
Content(line) ==
    LET r == Unprefixed(line)
    IN  IF r # <<>> /\ r[1] = " " THEN Tail(r) ELSE r

\* C17: the line emitted for a line that starts with a prefix is, after the
\* opening tag if the line opens a block, the line without the prefix and
\* without one space after the prefix if there is one: every other space
\* of the line, leading or trailing, is kept.  Stated for the lines that
\* start with ">"; the lines that start with "**>" are those of C4 and C16.
C17_PrefixStripping ==
    [][ (AtPrefixedLine /\ StartsWith(lines[li], <<">">>)) =>
           result'[li] \in
              { Content(lines[li]),
                <<"<", "b", "l", "o", "c", "k", "q", "u", "o", "t", "e", ">">>
                   \o Content(lines[li]),
                <<"<", "b", "l", "o", "c", "k", "q", "u", "o", "t", "e", " ",
                  "e", "x", "p", "a", "n", "d", "a", "b", "l", "e", ">">>
                   \o Content(lines[li]) } ]_vars

-----------------------------------------------------------------------------
(* More properties of the normalisation loop, checked under SpecNorm. *)

\* The entity is a link whose target is "spoiler" or starts with "emoji/".
IsSentinelLink(e) ==
    /\ e.kind = "TextUrl"
    /\ \/ e.url = <<"s", "p", "o", "i", "l", "e", "r">>
       \/ StartsWith(e.url, <<"e", "m", "o", "j", "i", "/">>)

\* C18: at every point of the loop and at its end the list has as many
\* entities as the loop got, each at the offset and with the length it had;
\* an entity the loop has not reached yet, and an entity that is not a link
\* with the target "spoiler" or a target that starts with "emoji/", is as it
\* was; what the loop returns is this list.
C18_NormalizerFrame ==
    pc \in {"norm_loop", "norm_done"} =>
       /\ Len(entities) = Len(arg_entities)
       /\ \A k \in 1..Len(entities) :
             /\ entities[k].offset = arg_entities[k].offset
             /\ entities[k].length = arg_entities[k].length
             /\ (k >= ei \/ ~IsSentinelLink(arg_entities[k])) =>
                   entities[k] = arg_entities[k]
       /\ pc = "norm_done" => ret = entities

\* The loop has ended on a list of two entities: a link with the target
\* "spoiler" at offset 0 that is now a Spoiler, after a Bold at offset 1
\* that is as it was.
C18_Witness ==
    /\ pc = "norm_done"
    /\ Len(entities) = 2
    /\ arg_entities[1] = Plain("Bold", 1, 1)
    /\ arg_entities[2].kind = "TextUrl"
    /\ entities[2].kind = "Spoiler"

-----------------------------------------------------------------------------
(* More properties of the tokenizer loop, checked under Spec. *)

\* C19: at every point of the scan the flag is set exactly when the kind
\* code or the kind pre is in the open set.
C19_FlagMatchesOpenSet ==
    pc = "scan" =>
       (is_fixed_width <=> (<<BQ>> \in delims \/ <<BQ, BQ, BQ>> \in delims))

\* The characters of the match m, as 1-based indices of the text the scan
\* ran on.
MatchedChars(m) == (m.start + 1)..(m.start + Len(m.full))

\* The characters of the text the scan ran on that are still in the text.
Kept(o) == {o[i] : i \in 1..Len(o)} \ {0}

\* C20: the pass of the loop on a match that is not suppressed, whose
\* characters are all still in the text, takes out of the text the
\* characters of the match, and with them, for a pre token that opens a
\* block, characters that come after the token only; no character before
\* the match and no character of another place is taken out.  (The
\* characters of a match are no longer in the text when the line of a pre
\* opening before it has taken them into the language of its tag.)
C20_ReplacementHitsMatch ==
    [][ ( /\ ScanStep
          /\ TokCase(matches[mi], is_fixed_width, delims) # "skip"
          /\ MatchedChars(matches[mi]) \subseteq Kept(origin) ) =>
           LET m == matches[mi]
               gone == Kept(origin) \ Kept(origin')
           IN  /\ MatchedChars(m) \subseteq gone
               /\ IF TokCase(m, is_fixed_width, delims) = "open_pre"
                  THEN \A k \in gone : k > m.start
                  ELSE gone = MatchedChars(m) ]_vars

=============================================================================
